---- MODULE Spec2Model ----
(***************************************************************************)
(* A model of the two command-line tools of the repository:                *)
(*   scripts/rename_by_chapter.py  (parse_chapter_title, chinese_to_number,*)
(*                                  format_chapter_number, process_md_files)*)
(*   scripts/merge_files.py        (extract_frontmatter_and_content,       *)
(*                                  merge_files)                           *)
(*                                                                         *)
(* Text is a sequence of one-character strings.  The CJK characters of the *)
(* source are written in pinyin: ling yi er san si wu liu qi ba jiu are    *)
(* the digits 0..9, shi is the tens marker, bai the hundreds marker, juan  *)
(* the volume marker, zhi the section connector, mu lu the                 *)
(* table-of-contents suffix.  A Python value that may be None is a         *)
(* sequence: None is <<>>, a present value v is <<v>>.                     *)
(***************************************************************************)
EXTENDS Integers, Sequences, FiniteSets

VARIABLES
    chinese_str, number,              \* chinese_to_number: argument, result
    content, chapter_info,            \* parse_chapter_title: argument, result
    text, split,                      \* extract_frontmatter_and_content
    dir, md_exists, md_files, idx,    \* process_md_files: directory, batch, loop
    renamed_count, failed_count, skipped_count,
    dry_run, pc, report, dir0,
    md, merged, file_dict, nums, mi,  \* merge_files: directories, dict, loop
    merged_count, mpc, merge_log

convVars   == <<chinese_str, number>>
parseVars  == <<content, chapter_info>>
splitVars  == <<text, split>>
renameVars == <<dir, md_exists, md_files, idx, renamed_count, failed_count,
                skipped_count, dry_run, pc, report, dir0>>
mergeVars  == <<md, merged, file_dict, nums, mi, merged_count, mpc, merge_log>>
vars == <<convVars, parseVars, splitVars, renameVars, mergeVars>>

-----------------------------------------------------------------------------
(* Python values and small helpers                                         *)

None == <<>>
Some(v) == <<v>>

Min(S) == CHOOSE x \in S : \A y \in S : x <= y

RECURSIVE SeqsUpTo(_, _)
SeqsUpTo(S, n) ==
    IF n = 0 THEN {<<>>}
    ELSE LET shorter == SeqsUpTo(S, n - 1)
         IN shorter \cup {Append(s, c) : s \in shorter, c \in S}

StartsWithAt(s, p, t) ==
    /\ p >= 1
    /\ p + Len(t) - 1 <= Len(s)
    /\ \A j \in 1..Len(t) : s[p + j - 1] = t[j]

From(s, p) == SubSeq(s, p, Len(s))

-----------------------------------------------------------------------------
(* chinese_to_number                                                       *)

OnesDigits == {"ling", "yi", "er", "san", "si", "wu", "liu", "qi", "ba", "jiu"}
NumeralAlphabet == OnesDigits \cup {"shi", "bai"}

chinese_nums ==
    [c \in NumeralAlphabet |->
        CASE c = "ling" -> 0 [] c = "yi" -> 1 [] c = "er" -> 2
          [] c = "san" -> 3 [] c = "si" -> 4 [] c = "wu" -> 5
          [] c = "liu" -> 6 [] c = "qi" -> 7 [] c = "ba" -> 8
          [] c = "jiu" -> 9 [] c = "shi" -> 10 [] c = "bai" -> 100]

\* chinese_nums.get(char, 0)
NumsGet(c) == IF c \in DOMAIN chinese_nums THEN chinese_nums[c] ELSE 0

\* the for loop of chinese_to_number from character i on, then result += temp
RECURSIVE ScanNumeralNoElision(_, _, _, _)
ScanNumeralNoElision(s, i, result, temp) ==
    IF i > Len(s) THEN result + temp
    ELSE IF s[i] = "bai" THEN ScanNumeralNoElision(s, i + 1, result + temp * 100, 0)
    ELSE IF s[i] = "shi" THEN ScanNumeralNoElision(s, i + 1, result + temp * 10, 0)
    ELSE ScanNumeralNoElision(s, i + 1, result, NumsGet(s[i]))

RECURSIVE ScanNumeral(_, _, _, _)
ScanNumeral(s, i, result, temp) ==
    IF i > Len(s) THEN result + temp
    ELSE IF s[i] = "bai"
         THEN ScanNumeral(s, i + 1, result + (IF temp = 0 THEN 1 ELSE temp) * 100, 0)
    ELSE IF s[i] = "shi"
         THEN ScanNumeral(s, i + 1, result + (IF temp = 0 THEN 1 ELSE temp) * 10, 0)
    ELSE ScanNumeral(s, i + 1, result, NumsGet(s[i]))

\* a converter whose markers do not imply a leading one
chinese_to_number_no_elision(s) ==
    IF Len(s) = 1 THEN NumsGet(s[1]) ELSE ScanNumeralNoElision(s, 1, 0, 0)

chinese_to_number(s) ==
    IF Len(s) = 1 THEN NumsGet(s[1]) ELSE ScanNumeral(s, 1, 0, 0)

-----------------------------------------------------------------------------
(* parse_chapter_title                                                     *)

\* the character class [yi er ... jiu shi bai] of both patterns (no ling)
PatternNumerals == NumeralAlphabet \ {"ling"}
\* \s
Whitespace == {" ", "\t"}

\* the last index of the longest run of characters of class C starting at i
\* (i - 1 when line[i] is not in C): a greedy C* at i
RECURSIVE RunEnd(_, _, _)
RunEnd(line, i, C) ==
    IF i <= Len(line) /\ line[i] \in C THEN RunEnd(line, i + 1, C) ELSE i - 1

\* ^#\s+juan([numerals]+): the index of the last character of group 1, or 0.
\* Neither juan nor what follows group 1 is in the class before it, so each
\* greedy run is the only one that can match.
VolumeRunEnd(line) ==
    IF Len(line) >= 1 /\ line[1] = "#"
    THEN LET w == RunEnd(line, 2, Whitespace)
         IN IF w >= 2 /\ w + 1 <= Len(line) /\ line[w + 1] = "juan"
            THEN LET e == RunEnd(line, w + 2, PatternNumerals)
                 IN IF e >= w + 2 THEN e ELSE 0
            ELSE 0
    ELSE 0

VolumeRunStart(line) == RunEnd(line, 2, Whitespace) + 2

\* re.match(pattern_with_section, line): None or Some(<<group 1, group 2>>)
MatchWithSection(line) ==
    LET e == VolumeRunEnd(line)
    IN IF e > 0 /\ e + 1 <= Len(line) /\ line[e + 1] = "zhi"
       THEN LET f == RunEnd(line, e + 2, PatternNumerals)
            IN IF f >= e + 2
               THEN Some(<<SubSeq(line, VolumeRunStart(line), e),
                           SubSeq(line, e + 2, f)>>)
               ELSE None
       ELSE None

\* re.match(pattern_without_section, line): None or Some(group 1)
MatchWithoutSection(line) ==
    LET e == VolumeRunEnd(line)
    IN IF e > 0 /\ (\/ e = Len(line)
                    \/ (e + 2 = Len(line) /\ StartsWithAt(line, e + 1, <<"mu", "lu">>)))
       THEN Some(SubSeq(line, VolumeRunStart(line), e))
       ELSE None

\* the for loop of parse_chapter_title from line i on
RECURSIVE ParseLinesLast(_, _)
ParseLinesLast(lines, i) ==
    IF i < 1 THEN None
    ELSE IF MatchWithSection(lines[i]) # None
         THEN Some(<<chinese_to_number(MatchWithSection(lines[i])[1][1]),
                     Some(chinese_to_number(MatchWithSection(lines[i])[1][2]))>>)
    ELSE IF MatchWithoutSection(lines[i]) # None
         THEN Some(<<chinese_to_number(MatchWithoutSection(lines[i])[1]), None>>)
    ELSE ParseLinesLast(lines, i - 1)

RECURSIVE ParseLines(_, _)
ParseLines(lines, i) ==
    IF i > Len(lines) THEN None
    ELSE IF MatchWithSection(lines[i]) # None
         THEN Some(<<chinese_to_number(MatchWithSection(lines[i])[1][1]),
                     Some(chinese_to_number(MatchWithSection(lines[i])[1][2]))>>)
    ELSE IF MatchWithoutSection(lines[i]) # None
         THEN Some(<<chinese_to_number(MatchWithoutSection(lines[i])[1]), None>>)
    ELSE ParseLines(lines, i + 1)

\* a parser that scans bottom-up, so the last matching line decides
parse_chapter_title_last_line(lines) == ParseLinesLast(lines, Len(lines))

\* content is the list content.split('\n'); None, or Some(<<volume, section>>)
\* with section None or Some(n)
parse_chapter_title(lines) == ParseLines(lines, 1)

-----------------------------------------------------------------------------
(* extract_frontmatter_and_content                                         *)

Marker == <<"-", "-", "-">>
OpenPat == <<"-", "-", "-", "\n">>
ClosePat == <<"\n", "-", "-", "-", "\n">>

\* the lazy group 1 of ^---\n(.*?)\n---\n(.*)$ under re.DOTALL: the least
\* k >= 0 such that \n---\n stands k characters after the opening ---\n;
\* -1 when there is none.  Group 2 then takes the rest ((.*)$ always matches).
RECURSIVE LazyLength(_, _)
LazyLength(s, k) ==
    IF Len(OpenPat) + k + Len(ClosePat) > Len(s) THEN -1
    ELSE IF StartsWithAt(s, Len(OpenPat) + k + 1, ClosePat) THEN k
    ELSE LazyLength(s, k + 1)

\* <<frontmatter, body>>, frontmatter None or Some(text)
extract_frontmatter_and_content(s) ==
    IF StartsWithAt(s, 1, OpenPat) /\ LazyLength(s, 0) >= 0
    THEN LET k == LazyLength(s, 0)
         IN <<Some(SubSeq(s, Len(OpenPat) + 1, Len(OpenPat) + k)),
              From(s, Len(OpenPat) + k + Len(ClosePat) + 1)>>
    ELSE <<None, s>>

-----------------------------------------------------------------------------
(* File names, format_chapter_number, glob and sorted                      *)

DigitChars == <<"0", "1", "2", "3", "4", "5", "6", "7", "8", "9">>

\* str(n) for n >= 0
RECURSIVE Decimal(_)
Decimal(n) ==
    IF n < 10 THEN <<DigitChars[n + 1]>>
    ELSE Append(Decimal(n \div 10), DigitChars[(n % 10) + 1])

\* f"{n:0wd}": zero-padded to at least w digits
ZeroPad(n, w) ==
    LET d == Decimal(n)
    IN IF Len(d) >= w THEN d ELSE [j \in 1..(w - Len(d)) |-> "0"] \o d

format_chapter_number(volume, section) ==
    IF section = None THEN ZeroPad(volume, 3)
    ELSE ZeroPad(volume, 3) \o <<"_">> \o ZeroPad(section[1], 2)

GlobPrefix == <<"K", "R", "3", "k", "0", "0", "5", "9", "_">>
MdExt == <<".", "m", "d">>

\* fnmatch of a file name against KR3k0059_*.md
GlobMatches(name) ==
    /\ Len(name) >= Len(GlobPrefix) + Len(MdExt)
    /\ StartsWithAt(name, 1, GlobPrefix)
    /\ StartsWithAt(name, Len(name) - Len(MdExt) + 1, MdExt)

\* code points of the characters file names are made of
CharCode(c) ==
    CASE c = "." -> 46 [] c = "0" -> 48 [] c = "1" -> 49 [] c = "2" -> 50
      [] c = "3" -> 51 [] c = "4" -> 52 [] c = "5" -> 53 [] c = "6" -> 54
      [] c = "7" -> 55 [] c = "8" -> 56 [] c = "9" -> 57 [] c = "K" -> 75
      [] c = "R" -> 82 [] c = "_" -> 95 [] c = "d" -> 100 [] c = "k" -> 107
      [] c = "m" -> 109 [] c = "x" -> 120

\* a < b as Python compares the two names
RECURSIVE LexLess(_, _)
LexLess(a, b) ==
    IF b = <<>> THEN FALSE
    ELSE IF a = <<>> THEN TRUE
    ELSE IF a[1] # b[1] THEN CharCode(a[1]) < CharCode(b[1])
    ELSE LexLess(Tail(a), Tail(b))

\* sorted(S)
RECURSIVE Sorted(_)
Sorted(S) ==
    IF S = {} THEN <<>>
    ELSE LET least == CHOOSE a \in S : \A b \in S \ {a} : LexLess(a, b)
         IN <<least>> \o Sorted(S \ {least})

\* sorted(md_path.glob("KR3k0059_*.md")) over the directory d (name -> content)
GlobSorted(d) == Sorted({n \in DOMAIN d : GlobMatches(n)})

-----------------------------------------------------------------------------
(* process_md_files                                                        *)

\* Path.rename on POSIX: the target is replaced when it exists
Rename(d, old, new) ==
    [n \in (DOMAIN d \ {old}) \cup {new} |-> IF n = new THEN d[old] ELSE d[n]]

\* a check that never reports the target as taken
TargetOccupiedNever(d, new_file_path, file_path) == FALSE

\* new_file_path.exists() and new_file_path != file_path
TargetOccupied(d, new_file_path, file_path) ==
    new_file_path \in DOMAIN d /\ new_file_path # file_path

\* the target name of a file whose content parses to chapter_info
NewName(info) == format_chapter_number(info[1][1], info[1][2]) \o MdExt

\* The way one iteration of the loop ends.  read_ok: open and read succeed;
\* rename_ok: Path.rename succeeds.
Outcome(d, file_path, dry, read_ok, rename_ok) ==
    IF ~read_ok \/ file_path \notin DOMAIN d THEN "read_error"
    ELSE LET info == parse_chapter_title(d[file_path])
         IN IF info = None THEN "no_title"
            ELSE IF file_path = NewName(info) THEN "already"
            ELSE IF TargetOccupied(d, NewName(info), file_path) THEN "conflict"
            ELSE IF dry THEN "dry"
            ELSE IF ~rename_ok THEN "rename_error"
            ELSE "renamed"

\* the target the iteration reports (None when no title was found)
Target(d, file_path, outcome) ==
    IF outcome \in {"read_error", "no_title"} THEN None
    ELSE Some(NewName(parse_chapter_title(d[file_path])))

\* a loop that renames in a dry run too
DirAfterIgnoringDryRun(d, file_path, outcome) ==
    IF outcome \in {"renamed", "dry"}
    THEN Rename(d, file_path, NewName(parse_chapter_title(d[file_path])))
    ELSE d

\* the directory after the iteration: only line 178 changes it
DirAfter(d, file_path, outcome) ==
    IF outcome = "renamed"
    THEN Rename(d, file_path, NewName(parse_chapter_title(d[file_path])))
    ELSE d

\* renamed_count += 1 placed before the rename
CountsAsRenamedEarly(outcome) == outcome \in {"renamed", "dry", "rename_error"}

\* renamed_count += 1 (line 181)
CountsAsRenamed(outcome) == outcome \in {"renamed", "dry"}

\* skipped_count += 1 (lines 150, 160)
CountsAsSkipped(outcome) == outcome \in {"no_title", "already"}

\* a conflict branch without its failed_count += 1
CountsAsFailedOnErrorOnly(outcome) == outcome \in {"read_error", "rename_error"}

\* failed_count += 1 (lines 166, 185)
CountsAsFailed(outcome) == outcome \in {"conflict", "read_error", "rename_error"}

Inc(b) == IF b THEN 1 ELSE 0

-----------------------------------------------------------------------------
(* merge_files                                                             *)

Digits == {DigitChars[j] : j \in 1..Len(DigitChars)}

DigitValue(c) == (CHOOSE j \in 1..Len(DigitChars) : DigitChars[j] = c) - 1

\* int(digits)
RECURSIVE IntOf(_)
IntOf(digits) ==
    IF digits = <<>> THEN 0
    ELSE IntOf(SubSeq(digits, 1, Len(digits) - 1)) * 10 + DigitValue(digits[Len(digits)])

\* the positions at which KR3k0059_(\d+)\.md matches inside name
SearchPositions(name) ==
    { p \in 1..Len(name) :
        /\ StartsWithAt(name, p, GlobPrefix)
        /\ LET e == RunEnd(name, p + Len(GlobPrefix), Digits)
           IN /\ e >= p + Len(GlobPrefix)
              /\ StartsWithAt(name, e + 1, MdExt) }

\* re.search(r'KR3k0059_(\d+)\.md', name), then int(match.group(1)):
\* None, or Some(num) for the leftmost match
SearchNum(name) ==
    IF SearchPositions(name) = {} THEN None
    ELSE LET p == Min(SearchPositions(name))
         IN Some(IntOf(SubSeq(name, p + Len(GlobPrefix),
                              RunEnd(name, p + Len(GlobPrefix), Digits))))

\* the loop of lines 41-46 over the sorted files: a later file with the same
\* number replaces an earlier one
RECURSIVE BuildDict(_, _, _)
BuildDict(files, j, fd) ==
    IF j > Len(files) THEN fd
    ELSE LET m == SearchNum(files[j])
         IN IF m = None THEN BuildDict(files, j + 1, fd)
            ELSE BuildDict(files, j + 1,
                    [n \in DOMAIN fd \cup {m[1]} |->
                        IF n = m[1] THEN files[j] ELSE fd[n]])

\* sorted(file_dict.keys())
RECURSIVE SortedNums(_)
SortedNums(S) ==
    IF S = {} THEN <<>> ELSE <<Min(S)>> \o SortedNums(S \ {Min(S)})

\* a loop that takes the even numbers for catalogs
IsCatalogEven(num) == num % 2 = 0

\* num % 2 == 1
IsCatalog(num) == num % 2 = 1

\* bool(frontmatter): None and the empty string are false
Truthy(opt) == opt # None /\ opt[1] # <<>>

\* catalog_fm if catalog_fm else content_fm
ChooseFrontmatter(catalog_fm, content_fm) ==
    IF Truthy(catalog_fm) THEN catalog_fm ELSE content_fm

\* an f-string formats None as the word None
FormatValue(opt) == IF opt = None THEN <<"N", "o", "n", "e">> ELSE opt[1]

\* f"---\n{frontmatter}\n---\n{catalog_body}\n{content_body}"
MergedContent(frontmatter, catalog_body, content_body) ==
    OpenPat \o FormatValue(frontmatter) \o ClosePat
        \o catalog_body \o <<"\n">> \o content_body

\* f"KR3k0059_{num:03d}.md"
OutputName(num) == GlobPrefix \o ZeroPad(num, 3) \o MdExt

-----------------------------------------------------------------------------
(* Bounds and input sets                                                   *)

MaxNumeralLen == 3
MaxLines == 3
MaxTail == 7
MaxPlain == 3

\* the conversions the docstring of chinese_to_number and the examples list
ConvExamples ==
    { <<"yi">>, <<"shi">>, <<"si", "shi", "san">>, <<"yi", "bai">>,
      <<"yi", "bai", "er">>, <<"yi", "bai", "liu">>,
      <<"yi", "bai", "liu", "shi", "yi">> }

ConvInputs == SeqsUpTo(NumeralAlphabet, MaxNumeralLen) \cup ConvExamples

HeadingOneOne == <<"#", " ", "juan", "yi", "zhi", "yi">>
HeadingThreeToc == <<"#", " ", "juan", "san", "mu", "lu">>

LineSet ==
    { HeadingOneOne,
      HeadingThreeToc,
      <<"#", " ", "juan", "shi">>,
      <<"#", "\t", " ", "juan", "er", "shi", "zhi", "san", "x">>,
      <<"#", "juan", "yi">>,
      <<"#", " ", "juan", "yi", "zhi">>,
      <<"#", " ", "juan", "er", "x">>,
      <<"#", " ", "juan", "er", "mu">>,
      <<"#", " ", "juan", "san", "mu", "lu", "x">>,
      <<"#", " ", "juan", "ling">>,
      <<" ", "#", " ", "juan", "yi">>,
      <<"x">>,
      <<>> }

ParseInputs == SeqsUpTo(LineSet, MaxLines)

TextAlphabet == {"-", "\n", "a"}

SplitInputs ==
    {OpenPat \o t : t \in SeqsUpTo(TextAlphabet, MaxTail)}
        \cup SeqsUpTo(TextAlphabet, MaxPlain)

\* a call that has not returned yet, and one that returned v
NotCalled == <<>>
Returned(v) == <<v>>

-----------------------------------------------------------------------------
(* Idle values of the variables a specification does not use               *)

ConvIdle == chinese_str = <<>> /\ number = NotCalled
ParseIdle == content = <<>> /\ chapter_info = NotCalled
SplitIdle == text = <<>> /\ split = NotCalled
RenameIdle ==
    /\ dir = <<>> /\ md_exists = FALSE /\ md_files = <<>> /\ idx = 0
    /\ renamed_count = 0 /\ failed_count = 0 /\ skipped_count = 0
    /\ dry_run = FALSE /\ pc = "idle" /\ report = <<>> /\ dir0 = <<>>
MergeIdle ==
    /\ md = <<>> /\ merged = <<>> /\ file_dict = <<>> /\ nums = <<>> /\ mi = 0
    /\ merged_count = 0 /\ mpc = "idle" /\ merge_log = <<>>

-----------------------------------------------------------------------------
(* chinese_to_number applied to every bounded numeral string               *)

InitConv ==
    /\ chinese_str \in ConvInputs /\ number = NotCalled
    /\ ParseIdle /\ SplitIdle /\ RenameIdle /\ MergeIdle

Convert ==
    /\ number = NotCalled
    /\ number' = Returned(chinese_to_number(chinese_str))
    /\ UNCHANGED <<chinese_str, parseVars, splitVars, renameVars, mergeVars>>

SpecConv == InitConv /\ [][Convert]_vars

(* parse_chapter_title applied to every bounded document                   *)

InitParse ==
    /\ content \in ParseInputs /\ chapter_info = NotCalled
    /\ ConvIdle /\ SplitIdle /\ RenameIdle /\ MergeIdle

Parse ==
    /\ chapter_info = NotCalled
    /\ chapter_info' = Returned(parse_chapter_title(content))
    /\ UNCHANGED <<content, convVars, splitVars, renameVars, mergeVars>>

SpecParse == InitParse /\ [][Parse]_vars

(* extract_frontmatter_and_content applied to every bounded text           *)

InitSplit ==
    /\ text \in SplitInputs /\ split = NotCalled
    /\ ConvIdle /\ ParseIdle /\ RenameIdle /\ MergeIdle

Split ==
    /\ split = NotCalled
    /\ split' = Returned(extract_frontmatter_and_content(text))
    /\ UNCHANGED <<text, convVars, parseVars, renameVars, mergeVars>>

SpecSplit == InitSplit /\ [][Split]_vars

-----------------------------------------------------------------------------
(* C7: for every numeral string, chinese_to_number returns the value of    *)
(* the left-to-right accumulation (bai commits (pending or 1) * 100, shi   *)
(* commits (pending or 1) * 10, a ones digit overwrites pending, the       *)
(* leftover pending is added at the end), and the listed examples convert  *)
(* to 1, 10, 43, 100, 102, 106 and 161.                                    *)

\* one character applied to <<total, pending>>
AccStep(st, c) ==
    IF c = "bai" THEN <<st[1] + (IF st[2] = 0 THEN 1 ELSE st[2]) * 100, 0>>
    ELSE IF c = "shi" THEN <<st[1] + (IF st[2] = 0 THEN 1 ELSE st[2]) * 10, 0>>
    ELSE <<st[1], chinese_nums[c]>>

RECURSIVE AccState(_)
AccState(s) ==
    IF s = <<>> THEN <<0, 0>>
    ELSE AccStep(AccState(SubSeq(s, 1, Len(s) - 1)), s[Len(s)])

Accumulation(s) == AccState(s)[1] + AccState(s)[2]

ExampleValue(s) ==
    CASE s = <<"yi">> -> 1
      [] s = <<"shi">> -> 10
      [] s = <<"si", "shi", "san">> -> 43
      [] s = <<"yi", "bai">> -> 100
      [] s = <<"yi", "bai", "er">> -> 102
      [] s = <<"yi", "bai", "liu">> -> 106
      [] s = <<"yi", "bai", "liu", "shi", "yi">> -> 161

C7_Accumulation ==
    number # NotCalled =>
        /\ number[1] = Accumulation(chinese_str)
        /\ chinese_str \in ConvExamples => number[1] = ExampleValue(chinese_str)

\* a converted string in which a marker stands with no digit before it
C7_Witness ==
    /\ number # NotCalled
    /\ Len(chinese_str) >= 2
    /\ \E i \in 1..Len(chinese_str) :
          /\ chinese_str[i] \in {"shi", "bai"}
          /\ (i = 1 \/ chinese_str[i - 1] \in {"shi", "bai", "ling"})

-----------------------------------------------------------------------------
(* C8: parse_chapter_title returns the result of the first line, in        *)
(* document order, that has one of the two heading shapes (the shape with  *)
(* a section tried first): (volume, section) for shape 1, (volume, absent) *)
(* for shape 2, and None exactly when no line has either shape.            *)

AllIn(line, a, b, C) == \A j \in a..b : line[j] \in C

\* the splits # ws juan run of a line: <<last of ws, last of run>>
HeadingSplits(line) ==
    { we \in (2..Len(line)) \X (4..Len(line)) :
        /\ line[1] = "#"
        /\ AllIn(line, 2, we[1], Whitespace)
        /\ line[we[1] + 1] = "juan"
        /\ we[2] >= we[1] + 2
        /\ AllIn(line, we[1] + 2, we[2], PatternNumerals) }

\* shape 1: # ws juan run zhi run, anything after; the results it yields
Shape1(line) ==
    { <<chinese_to_number(SubSeq(line, we[1] + 2, we[2])),
        Some(chinese_to_number(SubSeq(line, we[2] + 2, f)))>> :
        <<we, f>> \in
            { x \in HeadingSplits(line) \X (1..Len(line)) :
                /\ x[1][2] + 1 <= Len(line)
                /\ line[x[1][2] + 1] = "zhi"
                /\ x[2] >= x[1][2] + 2
                /\ AllIn(line, x[1][2] + 2, x[2], PatternNumerals)
                /\ (x[2] = Len(line) \/ line[x[2] + 1] \notin PatternNumerals) } }

\* shape 2: # ws juan run, optionally mu lu, and nothing after
Shape2(line) ==
    { <<chinese_to_number(SubSeq(line, we[1] + 2, we[2])), None>> :
        we \in
            { x \in HeadingSplits(line) :
                \/ x[2] = Len(line)
                \/ /\ x[2] + 2 = Len(line)
                   /\ line[x[2] + 1] = "mu" /\ line[x[2] + 2] = "lu" } }

MatchingLines(lines) ==
    {i \in 1..Len(lines) : Shape1(lines[i]) \cup Shape2(lines[i]) # {}}

C8_FirstMatchingLine ==
    chapter_info # NotCalled =>
        LET r == chapter_info[1]
            M == MatchingLines(content)
        IN /\ (r = None) <=> (M = {})
           /\ M # {} =>
                LET first == content[Min(M)]
                IN /\ Shape1(first) # {} => r \in {Some(x) : x \in Shape1(first)}
                   /\ Shape1(first) = {} => r \in {Some(x) : x \in Shape2(first)}
                   /\ first = HeadingOneOne => r = Some(<<1, Some(1)>>)
                   /\ first = HeadingThreeToc => r = Some(<<3, None>>)

\* a parsed document whose first line has no shape, whose second has shape 2
\* and whose third has shape 1
C8_Witness ==
    /\ chapter_info # NotCalled
    /\ Len(content) = 3
    /\ MatchingLines(content) = {2, 3}
    /\ Shape2(content[2]) # {}
    /\ Shape1(content[3]) # {}
    /\ chapter_info[1] = Some(<<3, None>>)

-----------------------------------------------------------------------------
(* C9: for every text that begins with an opening --- line followed later  *)
(* by a closing --- line, extract_frontmatter_and_content returns the text *)
(* between the two marker lines as metadata and the text after the closing *)
(* marker line as body, and splitting the re-wrapped pair returns the pair.*)

\* s.split('\n')
RECURSIVE SplitLines(_, _, _)
SplitLines(s, i, cur) ==
    IF i > Len(s) THEN <<cur>>
    ELSE IF s[i] = "\n" THEN <<cur>> \o SplitLines(s, i + 1, <<>>)
    ELSE SplitLines(s, i + 1, Append(cur, s[i]))

\* '\n'.join(lines[a..b])
RECURSIVE JoinLines(_, _, _)
JoinLines(lines, a, b) ==
    IF a > b THEN <<>>
    ELSE IF a = b THEN lines[a]
    ELSE lines[a] \o <<"\n">> \o JoinLines(lines, a + 1, b)

ClosingLines(s) ==
    LET lines == SplitLines(s, 1, <<>>)
    IN IF lines[1] = Marker THEN {j \in 2..Len(lines) : lines[j] = Marker} ELSE {}

Rewrap(fm, body) == Marker \o <<"\n">> \o fm \o <<"\n">> \o Marker \o <<"\n">> \o body

C9_DelimitedRoundTrip ==
    (split # NotCalled /\ ClosingLines(text) # {}) =>
        LET lines == SplitLines(text, 1, <<>>)
            j == Min(ClosingLines(text))
            fm == JoinLines(lines, 2, j - 1)
            body == JoinLines(lines, j + 1, Len(lines))
        IN /\ split[1] = <<Some(fm), body>>
           /\ extract_frontmatter_and_content(Rewrap(fm, body)) = <<Some(fm), body>>

-----------------------------------------------------------------------------
(* process_md_files run over a directory                                   *)

MaxFiles == 3

BatchNames == {GlobPrefix \o ZeroPad(n, 3) \o MdExt : n \in 1..MaxFiles}
\* a name a run never lists: 001_01.md
OtherNames == { <<"0", "0", "1", "_", "0", "1", ".", "m", "d">> }

Docs ==
    { <<HeadingOneOne>>,
      << <<"x">>, HeadingThreeToc >>,
      << <<"x">> >> }

Directories == UNION {[S -> Docs] : S \in SUBSET (BatchNames \cup OtherNames)}

InitRename ==
    /\ md_exists \in BOOLEAN
    /\ dir \in (IF md_exists THEN Directories ELSE {<<>>})
    /\ md_files = <<>> /\ idx = 0
    /\ renamed_count = 0 /\ failed_count = 0 /\ skipped_count = 0
    /\ dry_run = FALSE /\ pc = "idle" /\ report = <<>> /\ dir0 = dir
    /\ ConvIdle /\ ParseIdle /\ SplitIdle /\ MergeIdle

\* lines 123-137 when the directory exists: list, sort, zero the counters
StartRun ==
    /\ pc \in {"idle", "done"}
    /\ md_exists
    /\ \E d \in BOOLEAN : dry_run' = d
    /\ md_files' = GlobSorted(dir)
    /\ idx' = 1
    /\ renamed_count' = 0 /\ failed_count' = 0 /\ skipped_count' = 0
    /\ report' = <<>>
    /\ dir0' = dir
    /\ pc' = "loop"
    /\ UNCHANGED <<dir, md_exists, convVars, parseVars, splitVars, mergeVars>>

\* lines 125-127: the directory does not exist, the run returns at once
StartMissing ==
    /\ pc = "idle"
    /\ ~md_exists
    /\ \E d \in BOOLEAN : dry_run' = d
    /\ pc' = "returned"
    /\ UNCHANGED <<dir, md_exists, md_files, idx, renamed_count, failed_count,
                   skipped_count, report, dir0,
                   convVars, parseVars, splitVars, mergeVars>>

\* lines 139-185: one iteration of the loop, its try and its except
ProcessFile ==
    /\ pc = "loop"
    /\ idx <= Len(md_files)
    /\ \E read_ok \in BOOLEAN, rename_ok \in BOOLEAN :
          LET file_path == md_files[idx]
              outcome == Outcome(dir, file_path, dry_run, read_ok, rename_ok)
          IN /\ dir' = DirAfter(dir, file_path, outcome)
             /\ renamed_count' = renamed_count + Inc(CountsAsRenamed(outcome))
             /\ skipped_count' = skipped_count + Inc(CountsAsSkipped(outcome))
             /\ failed_count' = failed_count + Inc(CountsAsFailed(outcome))
             /\ report' = Append(report, [name |-> file_path,
                                          target |-> Target(dir, file_path, outcome),
                                          outcome |-> outcome])
    /\ idx' = idx + 1
    /\ UNCHANGED <<md_exists, md_files, dry_run, pc, dir0,
                   convVars, parseVars, splitVars, mergeVars>>

\* lines 187-196: the loop is over, the summary is printed
Finish ==
    /\ pc = "loop"
    /\ idx > Len(md_files)
    /\ pc' = "done"
    /\ UNCHANGED <<dir, md_exists, md_files, idx, renamed_count, failed_count,
                   skipped_count, dry_run, report, dir0,
                   convVars, parseVars, splitVars, mergeVars>>

NextRename == StartRun \/ StartMissing \/ ProcessFile \/ Finish

SpecRename == InitRename /\ [][NextRename]_vars

\* the loop is sequential code: an enabled step is taken
SpecRenameFair == SpecRename /\ WF_vars(ProcessFile) /\ WF_vars(Finish)

-----------------------------------------------------------------------------
(* Claims about process_md_files                                           *)

InRun == pc \in {"loop", "done"}

Entries(outcomes) == {j \in 1..Len(report) : report[j].outcome \in outcomes}

\* how many files of directory d hold each content
ContentsBag(d) == [c \in Docs |-> Cardinality({n \in DOMAIN d : d[n] = c})]

(* C1: in a real run no file is overwritten or lost: a file whose target   *)
(* name is taken (by a file there before the run or by a rename earlier in *)
(* the run) keeps its old name and is counted as failed, so the directory  *)
(* holds the same number of files with the same contents as before the run.*)
C1_NoFileLost ==
    (InRun /\ ~dry_run) =>
        /\ Cardinality(DOMAIN dir) = Cardinality(DOMAIN dir0)
        /\ ContentsBag(dir) = ContentsBag(dir0)
        /\ \A n \in DOMAIN dir0 :
              ~GlobMatches(n) => (n \in DOMAIN dir /\ dir[n] = dir0[n])
        /\ \A j \in Entries({"conflict"}) :
              /\ report[j].name \in DOMAIN dir
              /\ dir[report[j].name] = dir0[report[j].name]
        /\ \A j \in Entries({"renamed"}) :
              /\ report[j].name \notin DOMAIN dir
              /\ dir[report[j].target[1]] = dir0[report[j].name]
        /\ failed_count >= Cardinality(Entries({"conflict"}))

\* a real run in which a file was renamed and a later file, with the same
\* target, was refused; and one in which the target was there from the start
C1_Witness ==
    /\ pc = "done" /\ ~dry_run
    /\ \E j \in Entries({"renamed"}), k \in Entries({"conflict"}) :
          /\ j < k
          /\ report[j].target = report[k].target
          /\ report[j].target[1] \notin DOMAIN dir0

(* C2: a second run on a directory whose files are all correctly named     *)
(* performs zero renames and counts every one of those files as skipped    *)
(* because it is already correct.                                          *)
CorrectlyNamed(d) ==
    /\ DOMAIN d # {}
    /\ \A n \in DOMAIN d :
          /\ parse_chapter_title(d[n]) # None
          /\ n = NewName(parse_chapter_title(d[n]))

C2_SecondRunAllSkipped ==
    (pc = "done" /\ CorrectlyNamed(dir0)) =>
        /\ dir = dir0
        /\ renamed_count = 0
        /\ skipped_count = Cardinality(DOMAIN dir0)
        /\ {report[j].name : j \in Entries({"already"})} = DOMAIN dir0

(* C5: with dry_run set the directory is never changed: the names and the  *)
(* contents are those before the run, whatever the files parse to.         *)
C5_DryRunFrame == (InRun /\ dry_run) => dir = dir0

\* a finished dry run that reported an intended rename
C5_Witness ==
    /\ pc = "done" /\ dry_run
    /\ Entries({"dry"}) # {}
    /\ renamed_count > 0

(* C6: a failure while processing one file is confined to that file: it is *)
(* counted as failed exactly once and not as renamed, every later file of  *)
(* the sorted batch is still processed, and the run reaches its summary.   *)
C6_Accounting ==
    InRun =>
        /\ Len(report) = idx - 1
        /\ \A j \in 1..Len(report) : report[j].name = md_files[j]
        /\ failed_count =
              Cardinality(Entries({"read_error", "rename_error", "conflict"}))
        /\ renamed_count = Cardinality(Entries({"renamed", "dry"}))
        /\ pc = "done" => Len(report) = Len(md_files)

C6_FailureConfined == []C6_Accounting /\ ((pc = "loop") ~> (pc = "done"))

\* a finished run in which a read failed, a rename failed, and a later file
\* was renamed all the same
C6_Witness ==
    /\ pc = "done"
    /\ \E i \in Entries({"read_error"}), j \in Entries({"rename_error"}),
          k \in Entries({"renamed"}) : i < k /\ j < k

(* C10: every file found at the start of a run ends in exactly one of      *)
(* renamed, skipped, failed: the three counters add up to the number of    *)
(* files processed so far, and at the end to the number of files found.    *)
C10_CountersPartition ==
    InRun =>
        /\ renamed_count + skipped_count + failed_count = idx - 1
        /\ Cardinality({report[j].name : j \in 1..Len(report)}) = Len(report)
        /\ pc = "done" =>
              /\ renamed_count + skipped_count + failed_count = Len(md_files)
              /\ Len(md_files) = Cardinality({n \in DOMAIN dir0 : GlobMatches(n)})

\* a finished run of three files: one renamed, one skipped, one failed
C10_Witness ==
    /\ pc = "done"
    /\ Len(md_files) = 3
    /\ renamed_count = 1 /\ skipped_count = 1 /\ failed_count = 1

-----------------------------------------------------------------------------
(* merge_files run over a source directory                                 *)

MaxNum == 4

\* KR3k0059_001.md .. and KR3k0059_x.md, which carries no number
MergeNames ==
    {OutputName(n) : n \in 1..MaxNum} \cup {GlobPrefix \o <<"x">> \o MdExt}

TextPlain == <<"a">>
TextEmptyBlock == <<"-", "-", "-", "\n", "\n", "-", "-", "-", "\n", "b">>
TextBlock == <<"-", "-", "-", "\n", "k", "\n", "-", "-", "-", "\n", "c">>
MergeTexts == {TextPlain, TextEmptyBlock, TextBlock}

InitMerge ==
    /\ md \in UNION {[S -> MergeTexts] : S \in SUBSET MergeNames}
    /\ merged = <<>> /\ file_dict = <<>> /\ nums = <<>> /\ mi = 0
    /\ merged_count = 0 /\ mpc = "idle" /\ merge_log = <<>>
    /\ ConvIdle /\ ParseIdle /\ SplitIdle /\ RenameIdle

\* lines 33-49: the output directory, the sorted listing, the dictionary
MergeStart ==
    /\ mpc = "idle"
    /\ file_dict' = BuildDict(GlobSorted(md), 1, <<>>)
    /\ nums' = SortedNums(DOMAIN file_dict')
    /\ mi' = 1
    /\ merged_count' = 0
    /\ mpc' = "loop"
    /\ UNCHANGED <<md, merged, merge_log,
                   convVars, parseVars, splitVars, renameVars>>

\* lines 50-78: one iteration of the loop over the sorted numbers
MergeStep ==
    /\ mpc = "loop"
    /\ mi <= Len(nums)
    /\ LET num == nums[mi]
       IN IF IsCatalog(num) /\ num + 1 \in DOMAIN file_dict
          THEN LET catalog_file == file_dict[num]
                   content_file == file_dict[num + 1]
                   catalog == extract_frontmatter_and_content(md[catalog_file])
                   cont == extract_frontmatter_and_content(md[content_file])
                   frontmatter == ChooseFrontmatter(catalog[1], cont[1])
                   merged_content == MergedContent(frontmatter, catalog[2], cont[2])
                   output_file == OutputName(num)
               IN /\ merged' = [n \in DOMAIN merged \cup {output_file} |->
                                   IF n = output_file THEN merged_content
                                   ELSE merged[n]]
                  /\ merged_count' = merged_count + 1
                  /\ merge_log' = Append(merge_log,
                        [num |-> num, what |-> "merged",
                         catalog |-> catalog_file, content |-> Some(content_file)])
          ELSE IF IsCatalog(num)
          THEN /\ merge_log' = Append(merge_log,
                        [num |-> num, what |-> "warned",
                         catalog |-> file_dict[num], content |-> None])
               /\ UNCHANGED <<merged, merged_count>>
          ELSE UNCHANGED <<merged, merged_count, merge_log>>
    /\ mi' = mi + 1
    /\ UNCHANGED <<md, file_dict, nums, mpc,
                   convVars, parseVars, splitVars, renameVars>>

\* lines 80-81: the loop is over, the count is printed
MergeFinish ==
    /\ mpc = "loop"
    /\ mi > Len(nums)
    /\ mpc' = "done"
    /\ UNCHANGED <<md, merged, file_dict, nums, mi, merged_count, merge_log,
                   convVars, parseVars, splitVars, renameVars>>

NextMerge == MergeStart \/ MergeStep \/ MergeFinish

SpecMerge == InitMerge /\ [][NextMerge]_vars

-----------------------------------------------------------------------------
(* Claims about merge_files                                                *)

Logged(what) == {j \in 1..Len(merge_log) : merge_log[j].what = what}

(* C3: for every merged pair the metadata block written is the catalog's   *)
(* block whenever the catalog file has one (whatever it holds, the empty   *)
(* block included), and the content file's block only when the catalog has *)
(* none.                                                                   *)
C3_CatalogBlockWins ==
    \A j \in Logged("merged") :
        LET catalog == extract_frontmatter_and_content(md[merge_log[j].catalog])
            cont == extract_frontmatter_and_content(md[merge_log[j].content[1]])
            block == IF catalog[1] # None THEN catalog[1] ELSE cont[1]
        IN block # None =>
              merged[OutputName(merge_log[j].num)] =
                  Marker \o <<"\n">> \o block[1] \o <<"\n">> \o Marker \o <<"\n">>
                      \o catalog[2] \o <<"\n">> \o cont[2]

(* C4: the odd numbers are processed in ascending order; an odd N with no  *)
(* file at N+1 gets no output file and is not counted, and the later pairs *)
(* are still merged; at the end the merged count is the number of odd N    *)
(* with both N and N+1 present, and exactly those N have an output file.   *)
InputNums == {n \in 1..(MaxNum + 1) : OutputName(n) \in DOMAIN md}
CompletePairs == {n \in InputNums : n % 2 = 1 /\ n + 1 \in InputNums}
LonelyCatalogs == {n \in InputNums : n % 2 = 1 /\ n + 1 \notin InputNums}

C4_SkippedPairs ==
    mpc \in {"loop", "done"} =>
        /\ \A i, j \in 1..Len(merge_log) :
              i < j => merge_log[i].num < merge_log[j].num
        /\ merged_count = Cardinality(Logged("merged"))
        /\ DOMAIN merged = {OutputName(merge_log[j].num) : j \in Logged("merged")}
        /\ {merge_log[j].num : j \in Logged("merged")} \subseteq CompletePairs
        /\ {merge_log[j].num : j \in Logged("warned")} \subseteq LonelyCatalogs
        /\ mpc = "done" =>
              /\ merged_count = Cardinality(CompletePairs)
              /\ DOMAIN merged = {OutputName(n) : n \in CompletePairs}
              /\ {merge_log[j].num : j \in Logged("warned")} = LonelyCatalogs

\* a finished run that skipped catalog 1 (no file 2) and then merged 3 and 4
C4_Witness ==
    /\ mpc = "done"
    /\ merged_count = 1
    /\ \E i \in Logged("warned"), j \in Logged("merged") :
          i < j /\ merge_log[i].num = 1 /\ merge_log[j].num = 3

====
